---- MODULE Spec2Model ----
(***************************************************************************)
(* Model of the Lua hook shim                                              *)
(* (grim_analysis/retail_capture/shim/lua_hook.c).                          *)
(*                                                                         *)
(* Host threads call the interposed lua_dofile concurrently.  Every call   *)
(* resolves the real entry points once (pthread_once), forwards to the     *)
(* real lua_dofile, and then drives the telemetry injection state machine, *)
(* whose flags are guarded by telemetry_mutex.                             *)
(*                                                                         *)
(* A C string is a sequence of one-character strings; the interpreter's    *)
(* global namespace is the set of names that currently hold a function     *)
(* ("string" in the set means the global string is a table, "string.sub"   *)
(* that its member sub is a function).  One atomic step is one real        *)
(* entry-point call, one mutex acquisition, or one critical section up to  *)
(* and including its unlock.                                               *)
(***************************************************************************)
EXTENDS Integers, Sequences, FiniteSets, TLC

\* ------------------------------------------------------------------ bounds
\* total number of intercepted lua_dofile calls the host makes
MaxCalls == 2

\* the host threads that call lua_dofile
Threads == {"t1", "t2"}
NoThread == "none"

\* ----------------------------------------------------------- C strings
\* the null pointer (a one-element sequence holding a token that is no character)
NULL == << "(null)" >>

TARGET_SCRIPT == << "_", "s", "y", "s", "t", "e", "m", ".", "l", "u", "a" >>
TELEMETRY_SCRIPT ==
    << "m", "o", "d", "s", "/", "t", "e", "l", "e", "m", "e", "t", "r", "y", ".", "l", "u", "a" >>

\* arguments the host passes to lua_dofile
EmptyName == << >>
InDirTarget == << "d", "/" >> \o TARGET_SCRIPT
UpperTarget == << "_", "S", "y", "s", "t", "e", "m", ".", "l", "u", "a" >>
TargetAsDir == TARGET_SCRIPT \o << "/", "x" >>
OtherLua == << "o", "t", "h", "e", "r", ".", "l", "u", "a" >>

Filenames ==
    { NULL, EmptyName, TARGET_SCRIPT, InDirTarget, UpperTarget, TargetAsDir,
      OtherLua, TELEMETRY_SCRIPT }

\* strrchr: index of the last occurrence of c in s, 0 when there is none
strrchr(s, c) ==
    LET hits == { i \in 1..Len(s) : s[i] = c }
    IN  IF hits = {} THEN 0 ELSE CHOOSE i \in hits : \A j \in hits : j <= i

\* strcmp: 0 iff the two strings are equal
strcmp(a, b) == IF a = b THEN 0 ELSE 1

basename_or_self(path) ==
    IF path = NULL THEN NULL
    ELSE LET slash == strrchr(path, "/")
         IN  IF slash # 0 THEN SubSeq(path, slash + 1, Len(path)) ELSE path

\* ------------------------------------------------- resolved symbol table
\* the entry points whose absence changes control flow
Symbols ==
    { "lua_dofile", "lua_getglobal", "lua_isfunction", "lua_strlibopen",
      "lua_iolibopen", "lua_pushcclosure", "lua_setglobal", "lua_dostring" }

\* outcomes of dlsym: everything found, or one entry point missing (one
\* representative of each way a missing entry point changes control flow)
MayBeMissing ==
    { "lua_dofile", "lua_getglobal", "lua_strlibopen", "lua_dostring" }

SymbolTables == { Symbols } \cup { Symbols \ {s} : s \in MayBeMissing }

\* ------------------------------------------------------ interpreter side
RequiredGlobals == << "strsub", "strbyte", "strformat" >>
Required == { RequiredGlobals[i] : i \in 1..Len(RequiredGlobals) }

\* what lua_strlibopen registers, by interpreter flavour
StrLibs ==
    { { "strlen", "strsub", "ascii", "format" },
      { "string", "string.sub", "string.byte", "string.len", "string.format" } }

\* what a script run by the real lua_dofile does to the required globals:
\* nothing, define all of them itself, or clear one (strsub = nil)
HostEffects == { "keep", "define", "clear" }

ApplyEffect(g, e) ==
    CASE e = "keep"   -> g
      [] e = "define" -> g \cup Required
      [] e = "clear"  -> g \ { RequiredGlobals[1] }

\* result codes of the real lua_dofile / lua_dostring
Results == { 0, 1 }

\* STRING_LIB_PATCH_SCRIPT, statement by statement
STRING_LIB_PATCH_SCRIPT(g) ==
    LET g1 == IF "strbyte" \notin g /\ "ascii" \in g THEN g \cup { "strbyte" } ELSE g
        g2 == IF "strbyte" \notin g1 /\ "string" \in g1 /\ "string.byte" \in g1
              THEN g1 \cup { "strbyte" } ELSE g1
        g3 == IF "strformat" \notin g2 /\ "format" \in g2
              THEN g2 \cup { "strformat" } ELSE g2
        fill(h, member, name) ==
            IF member \notin h /\ name \in h THEN h \cup { member } ELSE h
        g4 == IF "string" \in g3
              THEN fill(fill(fill(fill(g3, "string.sub", "strsub"),
                                  "string.byte", "strbyte"),
                             "string.len", "strlen"),
                        "string.format", "strformat")
              ELSE g3
    IN  g4

\* --------------------------------------------- the native helper's world
\* lua_Object handles as the helper sees them: the kind of value and, for a
\* string, its characters
LUA_NOOBJECT == [ type |-> "none", s |-> NULL ]

NilObject == [ type |-> "nil", s |-> NULL ]

NumberObject == [ type |-> "number", s |-> NULL ]

StringObject(s) == [ type |-> "string", s |-> s ]

lua_isstring(obj) == obj.type = "string"

lua_getstring(obj) == IF obj.type = "string" THEN obj.s ELSE NULL

OutFile == << "o" >>
NoDirFile == << "d", "/", "o" >>

PathObjects ==
    { LUA_NOOBJECT, NilObject, NumberObject, StringObject(EmptyName),
      StringObject(OutFile), StringObject(NoDirFile) }

ContentsObjects ==
    { LUA_NOOBJECT, NumberObject, StringObject(EmptyName),
      StringObject(<< "a", "b" >>) }

ModeObjects ==
    { LUA_NOOBJECT, NumberObject, StringObject(EmptyName),
      StringObject(<< "a" >>), StringObject(<< "w" >>),
      StringObject(<< "r" >>), StringObject(<< "z" >>) }

\* the files under the one directory that exists: absent, or their bytes
Absent == << "(absent)" >>

Disks == { [ f \in { OutFile } |-> c ] : c \in { Absent, << "x" >> } }

\* fopen(path, mode): the stream it may return and the files afterwards;
\* it may always fail, and fails without a directory or with a bad mode
fopen(disk, path, mode) ==
    LET fail == [ file |-> "NULL", disk |-> disk ]
        kind == mode[1]
    IN  IF path \notin DOMAIN disk
        THEN { fail }
        ELSE CASE kind = "r" ->
                    IF disk[path] = Absent
                    THEN { fail }
                    ELSE { fail, [ file |-> "r", disk |-> disk ] }
               [] kind = "w" ->
                    { fail,
                      [ file |-> "w",
                        disk |-> [ disk EXCEPT ![path] = << >> ] ] }
               [] kind = "a" ->
                    { fail,
                      [ file |-> "a",
                        disk |-> [ disk EXCEPT ![path] =
                                     IF @ = Absent THEN << >> ELSE @ ] ] }
               [] OTHER -> { fail }

\* fwrite(contents, 1, strlen(contents), file): how many bytes it may write
fwrite(contents, file) ==
    IF file = "r" THEN { 0 } ELSE 0..Len(contents)

NoWrite ==
    [ pc |-> "none", path_obj |-> LUA_NOOBJECT, contents_obj |-> LUA_NOOBJECT,
      mode_obj |-> LUA_NOOBJECT, path |-> NULL, contents |-> NULL,
      mode |-> NULL, file |-> "NULL", pushed |-> << >>, opens |-> 0,
      disk |-> [ f \in { OutFile } |-> Absent ],
      disk0 |-> [ f \in { OutFile } |-> Absent ] ]

\* the calls a script can make: lua_getparam(1..3) and the files before it
WriteCalls ==
    { [ NoWrite EXCEPT !.pc = "call", !.path_obj = p, !.contents_obj = c,
                       !.mode_obj = m, !.disk = d, !.disk0 = d ] :
        p \in PathObjects, c \in ContentsObjects, m \in ModeObjects,
        d \in Disks }

\* -------------------------------------------------------------- the log
LogKinds ==
    { "no_real", "detected", "repeat_injected", "repeat_pending",
      "waiting_globals", "waiting_prereq", "injecting", "inject_error",
      "inject_ok", "patched", "patch_failed" }

VARIABLES
    once,            \* resolve_once: "init", "done", or who runs the initializer
    real,            \* the entry points dlsym resolved (non-null pointers)
    mutex,           \* owner of telemetry_mutex, NoThread when free
    flags,           \* the eight runtime flags
    globals,         \* names holding a function in the interpreter
    th,              \* per thread: position and locals of its lua_dofile call
    calls,           \* intercepted calls started so far
    logs,            \* lines written through log_event, by kind
    runs,            \* invocations of the one-shot entry points, by kind
    inject_env,      \* required globals resolved when the script was injected
    resolutions,     \* times resolve_real_symbols has run
    nw               \* a call of telemetry_native_write: arguments, locals, files

shim_vars ==
    << once, real, mutex, flags, globals, th, calls, logs, runs, inject_env,
       resolutions >>

vars == << shim_vars, nw >>

FlagNames ==
    { "telemetry_injected", "telemetry_requested", "telemetry_wait_logged",
      "telemetry_missing_globals_logged", "strlibopen_attempted",
      "string_library_patch_attempted", "iolibopen_attempted",
      "native_file_helpers_registered" }

RunKinds == { "strlibopen", "iolibopen", "patch", "register", "inject" }

IdleThread ==
    [ pc |-> "idle", filename |-> NULL, result |-> 0, ret |-> 0,
      should |-> FALSE, global_status |-> << >>,
      first_detection |-> FALSE, already_injected |-> FALSE,
      pending_injection |-> FALSE,
      fwd |-> 0, fwd_same |-> TRUE, call_logged |-> FALSE, matched |-> FALSE,
      armed |-> FALSE, polled |-> FALSE, evaluated |-> FALSE,
      did_inject |-> FALSE ]

InitShim ==
    /\ once = "init"
    /\ real = {}
    /\ mutex = NoThread
    /\ flags = [ f \in FlagNames |-> FALSE ]
    /\ globals = {}
    /\ th = [ t \in Threads |-> IdleThread ]
    /\ calls = 0
    /\ logs = [ k \in LogKinds |-> 0 ]
    /\ runs = [ k \in RunKinds |-> 0 ]
    /\ inject_env = {}
    /\ resolutions = 0

\* the state after construction: no call of the native helper is under way
Init == InitShim /\ nw = NoWrite

log_event(l, k) == [ l EXCEPT ![k] = @ + 1 ]

\* ------------------------------------------------------------- helpers
Set(t, rec) == [ th EXCEPT ![t] = rec ]

Finish_zero(rec) == [ rec EXCEPT !.pc = "ret", !.ret = 0 ]

\* return from forward_lua_call with the forwarded call's result
Finish(rec) == [ rec EXCEPT !.pc = "ret", !.ret = rec.result ]

function_exists(name) ==
    IF "lua_getglobal" \notin real \/ "lua_isfunction" \notin real
    THEN FALSE
    ELSE name \in globals

TriggerLoad_any_result(filename, original_result) ==
    IF filename = NULL
    THEN FALSE
    ELSE LET basename == basename_or_self(filename)
         IN  ~ (basename = NULL \/ strcmp(basename, TARGET_SCRIPT) # 0)

\* maybe_inject: the call is a successful load of the trigger script
TriggerLoad(filename, original_result) ==
    IF filename = NULL \/ original_result # 0
    THEN FALSE
    ELSE LET basename == basename_or_self(filename)
         IN  ~ (basename = NULL \/ strcmp(basename, TARGET_SCRIPT) # 0)

\* positions that wait for telemetry_mutex, and the critical section behind each
CsOf ==
    [ mi_lock  |-> "mi_cs",  ati_lock |-> "ati_cs", aso_lock |-> "aso_cs",
      aio_lock |-> "aio_cs", asp_lock |-> "asp_cs", reg_lock |-> "reg_cs",
      mg_lock  |-> "mg_cs",  w_lock   |-> "w_cs",   inj_lock |-> "inj_cs" ]

LockPcs == DOMAIN CsOf

\* ------------------------------------------------ the constructor's steps
\* loader_notice: pthread_once(&resolve_once, resolve_real_symbols) when the
\* constructor is the first caller; once a host thread has resolved, the
\* constructor's pthread_once changes nothing and is a stuttering step
loader_notice ==
    /\ once = "init"
    /\ once' = "loader"
    /\ UNCHANGED << nw, resolutions, real, mutex, flags, globals, th, calls, logs, runs, inject_env >>

\* resolve_real_symbols run by the constructor
loader_resolve ==
    /\ once = "loader"
    /\ \E tbl \in SymbolTables : real' = tbl
    /\ once' = "done"
    /\ resolutions' = resolutions + 1
    /\ UNCHANGED nw
    /\ UNCHANGED << mutex, flags, globals, th, calls, logs, runs, inject_env >>

\* ------------------------------------------------------ lua_dofile steps
\* a host thread enters the interposed lua_dofile
lua_dofile(t) ==
    /\ th[t].pc = "idle"
    /\ calls < MaxCalls
    /\ calls' = calls + 1
    /\ \E f \in Filenames :
          th' = Set(t, [ IdleThread EXCEPT
                           !.pc = "once", !.filename = f,
                           !.armed = (/\ flags.telemetry_requested
                                      /\ ~ flags.telemetry_injected
                                      /\ Required \subseteq globals) ])
    /\ UNCHANGED << nw, resolutions, once, real, mutex, flags, globals, logs, runs, inject_env >>

OnceVerdict_racy(o) == IF o = "done" THEN "skip" ELSE "run"

\* pthread_once: the first caller runs the initializer, a caller that finds
\* it running waits, a caller that finds it done goes on
OnceVerdict(o) ==
    CASE o = "init" -> "run"
      [] o = "done" -> "skip"
      [] OTHER      -> "wait"

\* pthread_once(&resolve_once, ...): run the initializer, or wait for it
pthread_once(t) ==
    /\ th[t].pc = "once"
    /\ OnceVerdict(once) # "wait"
    /\ IF OnceVerdict(once) = "run"
       THEN /\ once' = "running"
            /\ th' = Set(t, [ th[t] EXCEPT !.pc = "resolving" ])
       ELSE /\ th' = Set(t, [ th[t] EXCEPT !.pc = "forward" ])
            /\ UNCHANGED once
    /\ UNCHANGED << nw, resolutions, real, mutex, flags, globals, calls, logs, runs, inject_env >>

resolve_real_symbols(t) ==
    /\ th[t].pc = "resolving"
    /\ \E tbl \in SymbolTables : real' = tbl
    /\ once' = "done"
    /\ resolutions' = resolutions + 1
    /\ UNCHANGED nw
    /\ th' = Set(t, [ th[t] EXCEPT !.pc = "forward" ])
    /\ UNCHANGED << mutex, flags, globals, calls, logs, runs, inject_env >>

\* the argument forward_lua_call hands to real_fn
real_fn_arg(filename) == filename

\* forward_lua_call: if (!real_fn)
RealFnMissing_unchecked == FALSE

RealFnMissing == "lua_dofile" \notin real

LogsCall_nonnull(filename) == filename # NULL

\* forward_lua_call: if (filename && filename[0] != '\0') log_event(...)
LogsCall(filename) == filename # NULL /\ filename # EmptyName

\* forward_lua_call up to the branch taken in maybe_inject; filename is not
\* read after that branch and is dropped from the state
forward_lua_call(t) ==
    /\ th[t].pc = "forward"
    /\ IF RealFnMissing
       THEN /\ logs' = log_event(logs, "no_real")
            /\ th' = Set(t, [ th[t] EXCEPT !.pc = "ret", !.ret = -1 ])
            /\ UNCHANGED globals
       ELSE /\ \E r \in Results, e \in HostEffects :
                 /\ globals' = ApplyEffect(globals, e)
                 /\ th' = Set(t,
                       [ th[t] EXCEPT
                           !.result = r,
                           !.fwd = @ + 1,
                           !.fwd_same = (real_fn_arg(th[t].filename) = th[t].filename),
                           !.call_logged = LogsCall(th[t].filename),
                           !.matched = TriggerLoad(th[t].filename, r),
                           !.filename = NULL,
                           !.pc = IF TriggerLoad(th[t].filename, r)
                                  THEN "mi_lock" ELSE "ati_lock" ])
            /\ UNCHANGED logs
    /\ UNCHANGED << nw, resolutions, once, real, mutex, flags, calls, runs, inject_env >>

\* pthread_mutex_lock(&telemetry_mutex): wait until the mutex is free
pthread_mutex_lock(t) ==
    /\ th[t].pc \in LockPcs
    /\ mutex = NoThread
    /\ mutex' = t
    /\ th' = Set(t, [ th[t] EXCEPT !.pc = CsOf[th[t].pc] ])
    /\ UNCHANGED << nw, resolutions, once, real, flags, globals, calls, logs, runs, inject_env >>

pthread_mutex_unlock_missing(t) == t

\* pthread_mutex_unlock(&telemetry_mutex), the last statement of every
\* critical section: the owner afterwards
pthread_mutex_unlock(t) == NoThread

FirstDetection_stale(fl) == ~ fl.telemetry_injected

\* maybe_inject: if (!telemetry_requested)
FirstDetection(fl) == ~ fl.telemetry_requested

\* maybe_inject: the critical section that records the trigger
maybe_inject_cs(t) ==
    /\ th[t].pc = "mi_cs"
    /\ mutex = t
    /\ LET first == FirstDetection(flags)
           fl == IF first THEN [ flags EXCEPT !.telemetry_requested = TRUE ] ELSE flags
       IN  /\ flags' = fl
           /\ th' = Set(t,
                 [ th[t] EXCEPT
                     !.first_detection = first,
                     !.already_injected = fl.telemetry_injected,
                     !.pending_injection =
                         (fl.telemetry_requested /\ ~ fl.telemetry_injected),
                     !.pc = "mi_log" ])
    /\ mutex' = pthread_mutex_unlock(t)
    /\ UNCHANGED << nw, resolutions, once, real, globals, calls, logs, runs, inject_env >>

\* maybe_inject: the line logged after the critical section
maybe_inject_log(t) ==
    /\ th[t].pc = "mi_log"
    /\ logs' =
          IF th[t].first_detection THEN log_event(logs, "detected")
          ELSE IF th[t].already_injected THEN log_event(logs, "repeat_injected")
          ELSE IF th[t].pending_injection THEN log_event(logs, "repeat_pending")
          ELSE logs
    /\ th' = Set(t, [ th[t] EXCEPT !.pc = "ati_lock" ])
    /\ UNCHANGED << nw, resolutions, once, real, mutex, flags, globals, calls, runs, inject_env >>

ShouldCheck_always(fl) == TRUE

ShouldCheck_uninjected(fl) == ~ fl.telemetry_injected

\* attempt_telemetry_injection: if (telemetry_requested && !telemetry_injected)
ShouldCheck(fl) == fl.telemetry_requested /\ ~ fl.telemetry_injected

\* attempt_telemetry_injection: should_check
attempt_telemetry_injection_check(t) ==
    /\ th[t].pc = "ati_cs"
    /\ mutex = t
    /\ LET should_check == ShouldCheck(flags)
       IN  th' = Set(t,
                 IF should_check
                 THEN [ th[t] EXCEPT !.evaluated = TRUE, !.polled = TRUE,
                                     !.pc = "aso_lock" ]
                 ELSE Finish([ th[t] EXCEPT !.evaluated = TRUE ]))
    /\ mutex' = pthread_mutex_unlock(t)
    /\ UNCHANGED << nw, resolutions, once, real, flags, globals, calls, logs, runs, inject_env >>

ClaimOnce_always(t, pc, flag, yes, no) ==
    /\ th[t].pc = pc
    /\ mutex = t
    /\ flags' = [ flags EXCEPT ![flag] = TRUE ]
    /\ th' = Set(t, [ th[t] EXCEPT !.should = TRUE, !.pc = yes ])
    /\ mutex' = pthread_mutex_unlock(t)
    /\ UNCHANGED << nw, resolutions, once, real, globals, calls, logs, runs, inject_env >>

\* the test-and-set every one-shot step performs under the lock
ClaimOnce(t, pc, flag, yes, no) ==
    /\ th[t].pc = pc
    /\ mutex = t
    /\ IF ~ flags[flag]
       THEN /\ flags' = [ flags EXCEPT ![flag] = TRUE ]
            /\ th' = Set(t, [ th[t] EXCEPT !.should = TRUE, !.pc = yes ])
       ELSE /\ UNCHANGED flags
            /\ th' = Set(t, [ th[t] EXCEPT !.should = FALSE, !.pc = no ])
    /\ mutex' = pthread_mutex_unlock(t)
    /\ UNCHANGED << nw, resolutions, once, real, globals, calls, logs, runs, inject_env >>

attempt_string_library_open_cs(t) ==
    ClaimOnce(t, "aso_cs", "strlibopen_attempted", "aso_do", "aio_lock")

attempt_string_library_open(t) ==
    /\ th[t].pc = "aso_do"
    /\ IF "lua_strlibopen" \in real
       THEN /\ \E lib \in StrLibs : globals' = globals \cup lib
            /\ runs' = [ runs EXCEPT !.strlibopen = @ + 1 ]
       ELSE UNCHANGED << globals, runs >>
    /\ th' = Set(t, [ th[t] EXCEPT !.should = FALSE, !.pc = "aio_lock" ])
    /\ UNCHANGED << nw, resolutions, once, real, mutex, flags, calls, logs, inject_env >>

attempt_io_library_open_cs(t) ==
    ClaimOnce(t, "aio_cs", "iolibopen_attempted", "aio_do", "asp_lock")

\* lua_iolibopen and the readiness probe; neither touches a required global
attempt_io_library_open(t) ==
    /\ th[t].pc = "aio_do"
    /\ IF "lua_iolibopen" \in real
       THEN runs' = [ runs EXCEPT !.iolibopen = @ + 1 ]
       ELSE UNCHANGED runs
    /\ th' = Set(t, [ th[t] EXCEPT !.should = FALSE, !.pc = "asp_lock" ])
    /\ UNCHANGED << nw, resolutions, once, real, mutex, flags, globals, calls, logs, inject_env >>

attempt_string_library_patch_cs(t) ==
    ClaimOnce(t, "asp_cs", "string_library_patch_attempted", "asp_do", "chk")

RegisterAfterPatch_any(result) == TRUE

\* attempt_string_library_patch calls register_native_file_helpers in the
\* branch where real_lua_dostring returned 0
RegisterAfterPatch(result) == result = 0

\* real_lua_dostring(STRING_LIB_PATCH_SCRIPT) and the line logged for its
\* result; a failed chunk changes nothing
attempt_string_library_patch(t) ==
    /\ th[t].pc = "asp_do"
    /\ IF "lua_dostring" \notin real
       THEN /\ th' = Set(t, [ th[t] EXCEPT !.should = FALSE, !.pc = "chk" ])
            /\ UNCHANGED << globals, runs, logs >>
       ELSE /\ runs' = [ runs EXCEPT !.patch = @ + 1 ]
            /\ \E result \in Results :
                  /\ globals' = IF result # 0 THEN globals
                                ELSE STRING_LIB_PATCH_SCRIPT(globals)
                  /\ logs' = log_event(logs, IF result # 0 THEN "patch_failed"
                                                           ELSE "patched")
                  /\ th' = Set(t, [ th[t] EXCEPT
                                      !.should = FALSE,
                                      !.pc = IF RegisterAfterPatch(result)
                                             THEN "reg_lock" ELSE "chk" ])
    /\ UNCHANGED << nw, resolutions, once, real, mutex, flags, calls, inject_env >>

register_native_file_helpers_cs(t) ==
    ClaimOnce(t, "reg_cs", "native_file_helpers_registered", "reg_do", "chk")

\* real_lua_pushcclosure(telemetry_native_write, 0) and
\* real_lua_setglobal("telemetry_native_write")
register_native_file_helpers(t) ==
    /\ th[t].pc = "reg_do"
    /\ IF "lua_pushcclosure" \notin real \/ "lua_setglobal" \notin real
       THEN UNCHANGED << globals, runs >>
       ELSE /\ globals' = globals \cup { "telemetry_native_write" }
            /\ runs' = [ runs EXCEPT !.register = @ + 1 ]
    /\ th' = Set(t, [ th[t] EXCEPT !.should = FALSE, !.pc = "chk" ])
    /\ UNCHANGED << nw, resolutions, once, real, mutex, flags, calls, logs, inject_env >>

GlobalsReady_first(status) == status[1]

\* telemetry_runtime_ready: globals_ready stays true only if every
\* function_exists of the loop returned true
GlobalsReady(status) == \A j \in 1..Len(status) : status[j]

\* telemetry_runtime_ready: one function_exists per step, then the verdict
telemetry_runtime_ready(t) ==
    /\ th[t].pc = "chk"
    /\ LET i == Len(th[t].global_status) + 1
           status == Append(th[t].global_status, function_exists(RequiredGlobals[i]))
           globals_ready == GlobalsReady(status)
       IN  th' = Set(t,
                 IF i < Len(RequiredGlobals)
                 THEN [ th[t] EXCEPT !.global_status = status ]
                 ELSE [ th[t] EXCEPT !.global_status = status,
                                     !.pc = IF globals_ready THEN "inj_lock"
                                            ELSE "mg_lock" ])
    /\ UNCHANGED << nw, resolutions, once, real, mutex, flags, globals, calls, logs, runs, inject_env >>

telemetry_runtime_ready_cs(t) ==
    ClaimOnce(t, "mg_cs", "telemetry_missing_globals_logged", "mg_log", "w_lock")

telemetry_runtime_ready_log(t) ==
    /\ th[t].pc = "mg_log"
    /\ logs' = log_event(logs, "waiting_globals")
    /\ th' = Set(t, [ th[t] EXCEPT !.should = FALSE, !.pc = "w_lock" ])
    /\ UNCHANGED << nw, resolutions, once, real, mutex, flags, globals, calls, runs, inject_env >>

ShouldLogWait_always(fl) == TRUE

\* attempt_telemetry_injection: if (!telemetry_wait_logged)
ShouldLogWait(fl) == ~ fl.telemetry_wait_logged

\* attempt_telemetry_injection: not ready, should_log_wait
attempt_telemetry_injection_wait_cs(t) ==
    /\ th[t].pc = "w_cs"
    /\ mutex = t
    /\ IF ShouldLogWait(flags)
       THEN /\ flags' = [ flags EXCEPT !.telemetry_wait_logged = TRUE ]
            /\ th' = Set(t, [ th[t] EXCEPT !.should = TRUE, !.pc = "w_log" ])
       ELSE /\ UNCHANGED flags
            /\ th' = Set(t, Finish(th[t]))
    /\ mutex' = pthread_mutex_unlock(t)
    /\ UNCHANGED << nw, resolutions, once, real, globals, calls, logs, runs, inject_env >>

attempt_telemetry_injection_wait_log(t) ==
    /\ th[t].pc = "w_log"
    /\ logs' = log_event(logs, "waiting_prereq")
    /\ th' = Set(t, Finish([ th[t] EXCEPT !.should = FALSE ]))
    /\ UNCHANGED << nw, resolutions, once, real, mutex, flags, globals, calls, runs, inject_env >>

InjectNow_no_recheck(fl) == fl.telemetry_requested

InjectNow_inverted(fl) == fl.telemetry_injected /\ ~ fl.telemetry_requested

\* attempt_telemetry_injection: ready, inject_now
InjectNow(fl) == fl.telemetry_requested /\ ~ fl.telemetry_injected

attempt_telemetry_injection_claim(t) ==
    /\ th[t].pc = "inj_cs"
    /\ mutex = t
    /\ IF InjectNow(flags)
       THEN /\ flags' = [ flags EXCEPT !.telemetry_injected = TRUE ]
            /\ th' = Set(t, [ th[t] EXCEPT !.should = TRUE, !.pc = "inject" ])
       ELSE /\ UNCHANGED flags
            /\ th' = Set(t, Finish(th[t]))
    /\ mutex' = pthread_mutex_unlock(t)
    /\ UNCHANGED << nw, resolutions, once, real, globals, calls, logs, runs, inject_env >>

AfterInjection_retry(fl, result) ==
    IF result # 0 THEN [ fl EXCEPT !.telemetry_injected = FALSE ] ELSE fl

AfterInjection_rearm(fl, result) ==
    [ fl EXCEPT !.telemetry_requested = FALSE ]

\* the flags once real_lua_dofile(TELEMETRY_SCRIPT) has returned:
\* inject_telemetry logs the result and assigns no flag
AfterInjection(fl, result) == fl

\* log "injecting", then inject_telemetry: real_lua_dofile(TELEMETRY_SCRIPT)
\* and a log line for its result
inject_telemetry(t) ==
    /\ th[t].pc = "inject"
    /\ IF "lua_dofile" \notin real
       THEN /\ logs' = log_event(logs, "injecting")
            /\ th' = Set(t, Finish([ th[t] EXCEPT !.should = FALSE ]))
            /\ UNCHANGED << flags, globals, runs, inject_env >>
       ELSE /\ runs' = [ runs EXCEPT !.inject = @ + 1 ]
            /\ inject_env' = inject_env \cup { globals \cap Required }
            /\ \E result \in Results, e \in HostEffects :
                  /\ globals' = ApplyEffect(globals, e)
                  /\ logs' = log_event(log_event(logs, "injecting"),
                                       IF result # 0 THEN "inject_error"
                                                     ELSE "inject_ok")
                  /\ flags' = AfterInjection(flags, result)
            /\ th' = Set(t, Finish([ th[t] EXCEPT !.should = FALSE,
                                                  !.did_inject = TRUE ]))
    /\ UNCHANGED << nw, resolutions, once, real, mutex, calls >>

\* lua_dofile returns to the host
Return(t) ==
    /\ th[t].pc = "ret"
    /\ th' = Set(t, IdleThread)
    /\ UNCHANGED << nw, resolutions, once, real, mutex, flags, globals, calls, logs, runs, inject_env >>

\* the steps of thread t's intercepted call
Call(t) ==
    \/ lua_dofile(t)
    \/ pthread_once(t)
    \/ resolve_real_symbols(t)
    \/ forward_lua_call(t)
    \/ pthread_mutex_lock(t)
    \/ maybe_inject_cs(t)
    \/ maybe_inject_log(t)
    \/ attempt_telemetry_injection_check(t)
    \/ attempt_string_library_open_cs(t)
    \/ attempt_string_library_open(t)
    \/ attempt_io_library_open_cs(t)
    \/ attempt_io_library_open(t)
    \/ attempt_string_library_patch_cs(t)
    \/ attempt_string_library_patch(t)
    \/ register_native_file_helpers_cs(t)
    \/ register_native_file_helpers(t)
    \/ telemetry_runtime_ready(t)
    \/ telemetry_runtime_ready_cs(t)
    \/ telemetry_runtime_ready_log(t)
    \/ attempt_telemetry_injection_wait_cs(t)
    \/ attempt_telemetry_injection_wait_log(t)
    \/ attempt_telemetry_injection_claim(t)
    \/ inject_telemetry(t)
    \/ Return(t)

Next ==
    \/ loader_notice
    \/ loader_resolve
    \/ \E t \in Threads : Call(t)

Spec == Init /\ [][Next]_vars

\* ------------------------------------------- telemetry_native_write steps
InitWrite == InitShim /\ nw \in WriteCalls

Reject_success(w) == [ w EXCEPT !.pc = "done", !.pushed = Append(@, 1) ]

\* lua_pushnumber(0); return;
Reject(w) == [ w EXCEPT !.pc = "done", !.pushed = Append(@, 0) ]

\* the mode handed to fopen: "a" unless a non-empty string was requested
ModeOf(mode_obj) ==
    IF mode_obj # LUA_NOOBJECT /\ lua_isstring(mode_obj)
    THEN LET requested == lua_getstring(mode_obj)
         IN  IF requested # NULL /\ requested # EmptyName
             THEN requested
             ELSE << "a" >>
    ELSE << "a" >>

\* telemetry_native_write up to fopen: fetch and validate the arguments
telemetry_native_write_args ==
    /\ nw.pc = "call"
    /\ IF nw.path_obj = LUA_NOOBJECT \/ nw.contents_obj = LUA_NOOBJECT
       THEN nw' = Reject(nw)
       ELSE IF ~ lua_isstring(nw.path_obj) \/ ~ lua_isstring(nw.contents_obj)
       THEN nw' = Reject(nw)
       ELSE LET path == lua_getstring(nw.path_obj)
                contents == lua_getstring(nw.contents_obj)
                mode == ModeOf(nw.mode_obj)
            IN  IF path = NULL \/ path = EmptyName \/ contents = NULL
                THEN nw' = Reject(nw)
                ELSE nw' = [ nw EXCEPT !.pc = "open", !.path = path,
                                       !.contents = contents, !.mode = mode ]
    /\ UNCHANGED shim_vars

\* FILE *file = fopen(path, mode); if (!file) { lua_pushnumber(0); return; }
telemetry_native_write_fopen ==
    /\ nw.pc = "open"
    /\ \E o \in fopen(nw.disk, nw.path, nw.mode) :
          LET opened == [ nw EXCEPT !.opens = @ + 1, !.disk = o.disk,
                                    !.file = o.file ]
          IN  IF o.file = "NULL"
              THEN nw' = Reject(opened)
              ELSE nw' = [ opened EXCEPT !.pc = "write" ]
    /\ UNCHANGED shim_vars

\* fwrite, fclose and lua_pushnumber(success)
telemetry_native_write_fwrite ==
    /\ nw.pc = "write"
    /\ \E written \in fwrite(nw.contents, nw.file), closed \in { 0, -1 } :
          LET success == IF written = Len(nw.contents) /\ closed = 0
                         THEN 1 ELSE 0
          IN  nw' = [ nw EXCEPT
                        !.pc = "done",
                        !.file = "NULL",
                        !.disk = [ @ EXCEPT ![nw.path] =
                                     @ \o SubSeq(nw.contents, 1, written) ],
                        !.pushed = Append(@, success) ]
    /\ UNCHANGED shim_vars

NextWrite ==
    \/ telemetry_native_write_args
    \/ telemetry_native_write_fopen
    \/ telemetry_native_write_fwrite

SpecWrite == InitWrite /\ [][NextWrite]_vars

\* the same steps, with every thread that can step eventually stepping
FairSpec ==
    Spec /\ WF_vars(loader_resolve) /\ \A t \in Threads : WF_vars(Call(t))

TypeOK ==
    /\ once \in { "init", "loader", "running", "done" }
    /\ real \subseteq Symbols
    /\ mutex \in Threads \cup { NoThread }
    /\ calls \in 0..MaxCalls

\* ------------------------------------------------------ claim vocabulary
At(p) == { t \in Threads : th[t].pc = p }

\* the prober found every required global on this call
FoundReady(t) ==
    /\ Len(th[t].global_status) = Len(RequiredGlobals)
    /\ \A i \in 1..Len(RequiredGlobals) : th[t].global_status[i]

\* the prober finished on this call and missed a required global
FoundUnready(t) ==
    /\ Len(th[t].global_status) = Len(RequiredGlobals)
    /\ \E i \in 1..Len(RequiredGlobals) : ~ th[t].global_status[i]

\* the arguments whose last path segment is exactly "_system.lua"
TriggerNames == { TARGET_SCRIPT, InDirTarget }

\* C1: the shim invokes the auxiliary script at most once per process: at
\* most one caller ever holds the claim to inject, and it holds it only
\* after flipping telemetry_injected.
C1_InjectedAtMostOnce ==
    /\ runs.inject + Cardinality(At("inject")) <= 1
    /\ (runs.inject + Cardinality(At("inject")) = 1) => flags.telemetry_injected

\* two callers found the runtime ready on overlapping calls; one injected
C1_Witness ==
    \E t, u \in Threads :
        /\ t # u
        /\ th[t].pc = "ret" /\ th[t].did_inject
        /\ th[u].pc = "ret" /\ FoundReady(u) /\ ~ th[u].did_inject
        /\ runs.inject = 1

\* C2: injected implies requested, and requested becomes true only in the
\* critical section of a call whose argument's last path segment is exactly
\* "_system.lua" and whose real call returned 0.
C2_RequestedOnlyByTrigger ==
    /\ [](flags.telemetry_injected => flags.telemetry_requested)
    /\ [][ /\ \A t \in Threads :
                (th[t].pc = "forward" /\ th'[t].matched)
                    => (th[t].filename \in TriggerNames /\ th'[t].result = 0)
           /\ \A t \in Threads :
                (th'[t].matched /\ ~ th[t].matched) => th[t].pc = "forward"
           /\ (~ flags.telemetry_requested /\ flags'.telemetry_requested)
                => \E t \in Threads :
                      /\ th[t].pc = "mi_cs" /\ th'[t].pc = "mi_log"
                      /\ th[t].matched /\ th[t].result = 0 ]_vars

\* the script was injected by a call that was itself a successful trigger load
C2_Witness ==
    /\ flags.telemetry_requested
    /\ runs.inject = 1
    /\ \E t \in Threads : th[t].pc = "ret" /\ th[t].matched /\ th[t].did_inject

\* C3: at the moment the auxiliary script is invoked, all three required
\* globals resolve to functions.
C3_InjectedOnlyWhenResolved ==
    \A env \in inject_env : env = Required

\* C4 as stated: a call entered while requested, not injected and all three
\* required globals resolve has injected by the time it returns.
C4_NextCallInjects ==
    \A t \in Threads :
        (th[t].pc = "ret" /\ th[t].armed)
            => (flags.telemetry_injected /\ runs.inject = 1)

\* C4 amended: a call whose readiness probe found all three required globals
\* leaves injected true when it returns, and exactly one invocation of the
\* auxiliary script has been made or is being made by the claiming caller;
\* the caller that claimed it has invoked it once when it returns.
C4_ReadyCallInjects ==
    \A t \in Threads :
        (th[t].pc = "ret" /\ FoundReady(t))
            => /\ flags.telemetry_injected
               /\ runs.inject + Cardinality(At("inject")) = 1
               /\ th[t].did_inject => runs.inject = 1

\* a failed load of another script found the runtime ready and injected
C4_Witness ==
    \E t \in Threads :
        /\ th[t].pc = "ret" /\ FoundReady(t) /\ th[t].did_inject
        /\ ~ th[t].matched /\ th[t].result # 0
        /\ runs.inject = 1

\* C5: with the real entry point resolved, a returning call has forwarded
\* exactly once, with the caller's argument, and returns the real result.
C5_Transparent ==
    \A t \in Threads :
        (th[t].pc = "ret" /\ "lua_dofile" \in real)
            => /\ th[t].fwd = 1
               /\ th[t].fwd_same
               /\ th[t].ret = th[t].result

\* a failing call performed the injection and still returns its own result
C5_Witness ==
    \E t \in Threads :
        /\ th[t].pc = "ret" /\ th[t].did_inject
        /\ th[t].result = 1 /\ th[t].ret = 1

\* C6: each one-shot bootstrapping action runs at most once per process.
C6_BootstrapAtMostOnce ==
    /\ runs.strlibopen + Cardinality(At("aso_do")) <= 1
    /\ runs.iolibopen + Cardinality(At("aio_do")) <= 1
    /\ runs.patch + Cardinality(At("asp_do")) <= 1
    /\ runs.register + Cardinality(At("reg_do")) <= 1

\* both threads polled readiness and every bootstrapping action ran once
C6_Witness ==
    /\ \A t \in Threads : th[t].polled /\ th[t].pc = "ret"
    /\ \A k \in { "strlibopen", "iolibopen", "patch", "register" } : runs[k] = 1

\* C7: with lua_dofile unresolved every call returns -1, no entry point is
\* invoked, no flag changes, and neither the state machine nor the prober
\* is evaluated.
C7_UnresolvedReturnsSentinel ==
    (once = "done" /\ "lua_dofile" \notin real)
        => /\ \A f \in FlagNames : ~ flags[f]
           /\ \A k \in RunKinds : runs[k] = 0
           /\ globals = {}
           /\ \A t \in Threads :
                /\ th[t].pc \in { "idle", "once", "forward", "ret" }
                /\ th[t].fwd = 0 /\ ~ th[t].evaluated /\ ~ th[t].polled
                /\ th[t].pc = "ret" => th[t].ret = -1

\* both calls of the run returned the sentinel
C7_Witness ==
    /\ once = "done" /\ "lua_dofile" \notin real
    /\ calls = MaxCalls
    /\ \A t \in Threads : th[t].pc = "ret" /\ th[t].ret = -1
    /\ logs.no_real = Cardinality(Threads)

\* C8 as stated: a successful load of a non-trigger script with no trigger
\* recorded records none, injects nothing, and still runs the prober.
C8_NonTriggerStillPolls ==
    \A t \in Threads :
        (/\ th[t].pc = "ret" /\ th[t].fwd = 1
         /\ ~ th[t].matched /\ th[t].result = 0
         /\ ~ flags.telemetry_requested)
            => (~ th[t].did_inject /\ th[t].polled)

\* C8 amended: such a call records no trigger and injects nothing; the state
\* machine is evaluated but the prober is not run, no bootstrapping action
\* starts, and no diagnostic line is written.
C8_NonTriggerDoesNotPoll ==
    \A t \in Threads :
        (/\ th[t].pc = "ret" /\ th[t].fwd = 1
         /\ ~ th[t].matched /\ th[t].result = 0
         /\ ~ flags.telemetry_requested)
            => /\ ~ th[t].did_inject
               /\ th[t].evaluated /\ ~ th[t].polled
               /\ th[t].global_status = << >>
               /\ \A k \in RunKinds : runs[k] = 0
               /\ \A k \in LogKinds : logs[k] = 0

\* two successful non-trigger loads returned with no trigger recorded
C8_Witness ==
    /\ ~ flags.telemetry_requested
    /\ \A t \in Threads :
          /\ th[t].pc = "ret" /\ th[t].fwd = 1 /\ th[t].evaluated
          /\ ~ th[t].matched /\ th[t].result = 0

\* C9 as stated: of two overlapping successful trigger loads, the one that
\* does not inject observed "already injected" or "pending".
C9_LoserSawRepeat ==
    \A t, u \in Threads :
        (/\ t # u
         /\ th[t].pc = "ret" /\ th[t].matched /\ th[t].did_inject
         /\ th[u].pc = "ret" /\ th[u].matched /\ ~ th[u].did_inject)
            => (th[u].already_injected \/ th[u].pending_injection)
               /\ ~ th[u].first_detection

\* the line maybe_inject logs for the thread, decided in its critical section
Observed(t) ==
    IF th[t].first_detection THEN "detected"
    ELSE IF th[t].already_injected THEN "repeat_injected"
    ELSE IF th[t].pending_injection THEN "repeat_pending"
    ELSE "nothing"

PastTriggerSection == { "mi_log", "ati_lock", "ati_cs", "ret" }

\* C9 amended: of two overlapping successful trigger loads that both found
\* the runtime ready exactly one injects; each observed exactly one of
\* first detection, already injected or pending in its critical section (the
\* one that does not inject may be the first detector); and the
\* first-detection line is logged exactly once per process.
C9_OneInjectorOneDetection ==
    /\ logs.detected + Cardinality({ t \in At("mi_log") : th[t].first_detection }) =
          (IF flags.telemetry_requested THEN 1 ELSE 0)
    /\ runs.inject + Cardinality(At("inject")) <= 1
    /\ \A t \in Threads :
          (th[t].matched /\ th[t].pc \notin { "mi_lock", "mi_cs" })
              => /\ Observed(t) # "nothing"
                 /\ th[t].first_detection => ~ th[t].already_injected
                 /\ th[t].already_injected # th[t].pending_injection
    /\ \A t, u \in Threads :
          (/\ t # u
           /\ th[t].pc = "ret" /\ th[t].matched /\ FoundReady(t)
           /\ th[u].pc = "ret" /\ th[u].matched /\ FoundReady(u))
              => (th[t].did_inject # th[u].did_inject)

\* the first detector lost the race to inject against a "pending" observer
C9_Witness ==
    \E t, u \in Threads :
        /\ t # u
        /\ th[t].pc = "ret" /\ th[t].matched /\ FoundReady(t)
        /\ th[t].did_inject /\ Observed(t) = "repeat_pending"
        /\ th[u].pc = "ret" /\ th[u].matched /\ FoundReady(u)
        /\ ~ th[u].did_inject /\ Observed(u) = "detected"
        /\ logs.detected = 1 /\ logs.repeat_pending = 1

\* C10: the "prerequisites missing" line and the "waiting on global
\* functions" line are each logged at most once per process.
C10_WaitLoggedOnce ==
    /\ logs.waiting_prereq + Cardinality(At("w_log")) <= 1
    /\ logs.waiting_globals + Cardinality(At("mg_log")) <= 1
    /\ logs.waiting_prereq = 1 => flags.telemetry_wait_logged
    /\ logs.waiting_globals = 1 => flags.telemetry_missing_globals_logged

\* two polls found the runtime unready and each line was written once
C10_Witness ==
    /\ \A t \in Threads : th[t].pc = "ret" /\ FoundUnready(t)
    /\ logs.waiting_prereq = 1
    /\ logs.waiting_globals = 1

\* C11: resolve_real_symbols runs exactly once per process, one caller at a
\* time, and it has completed, leaving a table of resolved or null pointers,
\* before any call forwards to the real entry point or touches a flag.
C11_ResolvedOnceBeforeForward ==
    /\ resolutions <= 1
    /\ (once = "done") <=> (resolutions = 1)
    /\ Cardinality(At("resolving")) + (IF once = "loader" THEN 1 ELSE 0) <= 1
    /\ (once = "done") => real \in SymbolTables
    /\ (once # "done") => real = {}
    /\ \A t \in Threads :
          th[t].pc \notin { "idle", "once", "resolving" } => resolutions = 1
    /\ (\E f \in FlagNames : flags[f]) => resolutions = 1
    /\ mutex # NoThread => resolutions = 1

\* two first callers raced; one resolved, and both are about to forward
C11_Witness ==
    /\ resolutions = 1
    /\ calls = Cardinality(Threads)
    /\ \A t \in Threads : th[t].pc = "forward"

\* C12: when the path or the content argument of the native file-write helper
\* is missing or is not a string, the helper pushes 0 and opens, creates and
\* modifies no file.
C12_BadArgumentsTouchNoFile ==
    ( \/ nw.path_obj = LUA_NOOBJECT
      \/ nw.contents_obj = LUA_NOOBJECT
      \/ nw.path_obj.type # "string"
      \/ nw.contents_obj.type # "string" )
    => /\ nw.pc \in { "none", "call", "done" }
       /\ nw.opens = 0
       /\ nw.disk = nw.disk0
       /\ nw.pc = "done" => nw.pushed = << 0 >>

\* the helper returned from a call with a path and no content: 0, no file
C12_Witness ==
    /\ nw.pc = "done"
    /\ nw.path_obj = StringObject(OutFile)
    /\ nw.contents_obj = LUA_NOOBJECT
    /\ nw.pushed = << 0 >>
    /\ nw.disk0[OutFile] = Absent
    /\ nw.disk[OutFile] = Absent

\* C13: once the real entry point has returned non-zero for the auxiliary
\* script, telemetry_injected stays true and the script is not run again:
\* it has run exactly once and no call is on its way to run it.
C13_FailedInjectionNotRetried ==
    logs["inject_error"] > 0
    => /\ flags["telemetry_injected"]
       /\ logs["inject_error"] = 1
       /\ runs["inject"] = 1
       /\ At("inject") = {}

\* the injection failed, a second load of the trigger script was answered
\* with the repeat line, and both calls have returned
C13_Witness ==
    /\ logs["inject_error"] = 1
    /\ logs["repeat_injected"] >= 1
    /\ runs["inject"] = 1
    /\ flags["telemetry_injected"]
    /\ \A t \in Threads : th[t].pc = "idle"

\* C14: every step leaves each of the eight runtime flags as it was or moves
\* it from false to true, never back; and a step that changes a flag is a
\* step of the thread that holds telemetry_mutex, which it releases.
C14_FlagsMonotoneUnderLock ==
    [][ /\ \A f \in FlagNames : flags[f] => flags'[f]
        /\ flags' # flags =>
              /\ mutex \in Threads
              /\ th[mutex].pc \in { CsOf[p] : p \in LockPcs }
              /\ th'[mutex].pc # th[mutex].pc
              /\ \A u \in Threads \ { mutex } : th'[u] = th[u]
              /\ mutex' = NoThread ]_vars

\* every flag has been set
C14_Witness == \A f \in FlagNames : flags[f]

\* C15: the shim does not deadlock on telemetry_mutex. The owner is always
\* inside a critical section and never waiting for the mutex; every call
\* under way can take a step, or waits for the mutex or for the symbol
\* resolution while the thread it waits for can take a step; and the step the
\* owner takes releases the mutex having changed nothing but flags and its own
\* locals: no log line, no real entry-point call, no script run.
C15_NoDeadlockOnLock ==
    /\ [] /\ \A t \in Threads :
                (mutex = t) <=> (th[t].pc \in { CsOf[p] : p \in LockPcs })
          /\ \A t \in Threads :
                th[t].pc # "idle" =>
                   \/ ENABLED Call(t)
                   \/ /\ th[t].pc \in LockPcs
                      /\ mutex \in Threads \ { t }
                      /\ ENABLED Call(mutex)
                   \/ /\ th[t].pc = "once"
                      /\ \/ ENABLED loader_resolve
                         \/ \E u \in Threads \ { t } :
                               ENABLED resolve_real_symbols(u)
    /\ [][ \A t \in Threads :
              (mutex = t /\ th'[t] # th[t]) =>
                 /\ mutex' = NoThread
                 /\ UNCHANGED << logs, runs, globals, inject_env, real, once,
                                 calls >> ]_vars

\* C15, the conclusion drawn from it: when every thread with a step to take
\* eventually takes one (the real entry points return, the scheduler runs
\* every thread), every intercepted call returns to the host.
C15_CallsComplete ==
    \A t \in Threads : (th[t].pc # "idle") ~> (th[t].pc = "idle")

\* one thread owns the mutex inside the injection claim while the other
\* waits for it in front of the prober's critical section
C15_Witness ==
    \E t, u \in Threads :
        /\ mutex = t
        /\ th[t].pc = "inj_cs"
        /\ th[u].pc = "mg_lock"

\* C16: the native helper is installed only after the string-library patch
\* succeeded: whenever register_native_file_helpers is under way, has claimed
\* its flag or has set the global, the patch script ran once and returned 0.
C16_HelperOnlyAfterPatch ==
    ( \/ \E t \in Threads : th[t].pc \in { "reg_lock", "reg_cs", "reg_do" }
      \/ flags["native_file_helpers_registered"]
      \/ runs["register"] > 0
      \/ "telemetry_native_write" \in globals )
    => /\ logs["patched"] = 1
       /\ logs["patch_failed"] = 0
       /\ runs["patch"] = 1
       /\ flags["string_library_patch_attempted"]
       /\ "lua_dostring" \in real

\* the patch succeeded and the helper is a global
C16_Witness ==
    /\ logs["patched"] = 1
    /\ runs["register"] = 1
    /\ "telemetry_native_write" \in globals

\* C17 as stated: every call forwarded to the resolved real entry point is
\* logged, whatever its argument, a null or empty filename included.
C17_EveryForwardLogged ==
    \A t \in Threads : th[t].fwd = 1 => th[t].call_logged

\* C17, amended: a call forwarded to the resolved real entry point is logged
\* exactly when its filename is neither null nor empty; a call that finds the
\* entry point unresolved is not forwarded and logs no call line.
C17_ForwardLoggedWhenNamed ==
    [][ \A t \in Threads :
           (th[t].pc = "forward" /\ th'[t].pc # "forward") =>
              IF th'[t].fwd = 1
              THEN /\ "lua_dofile" \in real
                   /\ th'[t].call_logged
                        <=> th[t].filename \notin { NULL, EmptyName }
              ELSE /\ "lua_dofile" \notin real
                   /\ ~ th'[t].call_logged ]_vars

\* two calls were forwarded; one had a name and was logged, the other had
\* none and was not
C17_Witness ==
    \E t, u \in Threads :
        /\ th[t].pc = "ret" /\ th[t].fwd = 1 /\ th[t].call_logged
        /\ th[u].pc = "ret" /\ th[u].fwd = 1 /\ ~ th[u].call_logged

\* C18 as stated: once the patch script has failed, no readiness check
\* reports ready and the auxiliary script is not run.
C18_FailureKeepsUnready ==
    [][ logs["patch_failed"] > 0 =>
           /\ runs'["inject"] = runs["inject"]
           /\ \A t \in Threads :
                 (th[t].pc = "chk" /\ th'[t].pc # "chk")
                    => th'[t].pc = "mg_lock" ]_vars

\* C18, amended: a failed patch is not run again and the helper is never
\* registered after it; a readiness check still reports what it finds: ready
\* when all three required globals resolved, and then the script is injected,
\* not ready when one is missing, and then the call returns without injecting.
C18_FailureLeavesReadinessToGlobals ==
    logs["patch_failed"] > 0
    => /\ logs["patch_failed"] = 1
       /\ logs["patched"] = 0
       /\ runs["patch"] = 1
       /\ runs["register"] = 0
       /\ ~ flags["native_file_helpers_registered"]
       /\ "telemetry_native_write" \notin globals
       /\ \A t \in Threads :
             /\ (th[t].pc \in { "inj_lock", "inj_cs", "inject" } \/ th[t].did_inject)
                   => FoundReady(t)
             /\ th[t].pc \in { "mg_lock", "mg_cs", "mg_log",
                               "w_lock", "w_cs", "w_log" } => FoundUnready(t)
             /\ FoundUnready(t) => ~ th[t].did_inject

\* the only call so far ran the patch script, which failed, then found the
\* three globals defined by the host's own scripts and injected
C18_Witness ==
    /\ logs["patch_failed"] = 1
    /\ runs["inject"] = 1
    /\ calls = 1
    /\ \E t \in Threads : th[t].pc = "ret" /\ th[t].did_inject /\ FoundReady(t)

\* C19: the patch script never starts while a string-library open or an
\* io-library open that another thread has claimed is still to be carried
\* out.
C19_PatchAfterLibraryOpens ==
    [][ runs'["patch"] # runs["patch"] =>
           /\ At("aso_do") = {}
           /\ At("aio_do") = {} ]_vars

\* C20: when the auxiliary script is invoked, no thread is in the middle of a
\* bootstrapping action: no claimed library open or patch is still to be
\* carried out, and no registration that follows a successful patch is still
\* to finish.
C20_InjectionAfterBootstrap ==
    [][ runs'["inject"] # runs["inject"] =>
           \A t \in Threads :
              th[t].pc \notin { "aso_do", "aio_do", "asp_do",
                                "reg_lock", "reg_cs", "reg_do" } ]_vars

\* C21: while telemetry_requested is false the shim has done nothing to the
\* interpreter beyond forwarding calls: no library open, patch, registration
\* or injection has run, no thread is inside the prober or a bootstrapping
\* step, no flag is set, and the interpreter holds only what the host's own
\* scripts defined.
C21_NothingBeforeTrigger ==
    ~ flags["telemetry_requested"]
    => /\ \A k \in RunKinds : runs[k] = 0
       /\ \A f \in FlagNames : ~ flags[f]
       /\ \A t \in Threads :
             th[t].pc \in { "idle", "once", "resolving", "forward",
                            "mi_lock", "mi_cs", "ati_lock", "ati_cs", "ret" }
       /\ \A t \in Threads : ~ th[t].polled /\ ~ th[t].did_inject
       /\ globals \subseteq Required
       /\ inject_env = {}
       /\ \A k \in LogKinds \ { "no_real" } : logs[k] = 0

\* no trigger yet: both threads forwarded a call and had the state machine
\* look at it, one call having succeeded and the other failed
C21_Witness ==
    /\ ~ flags["telemetry_requested"]
    /\ \A t \in Threads :
          th[t].pc = "ret" /\ th[t].fwd = 1 /\ th[t].evaluated
    /\ \E t, u \in Threads : th[t].result = 0 /\ th[u].result # 0

====
